---- MODULE Spec2Model ----
(***************************************************************************)
(* The wdio Tauri plugin: the execute bridge (commands.rs, execute) and    *)
(* the mock registry (mock_store.rs and its five commands).                *)
(*                                                                         *)
(* Host side: every inbound command is an async task of the host runtime;  *)
(* it occupies one runtime worker thread from its first statement to its   *)
(* return, because none of the command bodies contains a suspension point  *)
(* (execute waits with the blocking std::sync::mpsc recv_timeout).         *)
(* Remote side: the webview evaluates each dispatched envelope and emits   *)
(* at most one event on the call's topic.                                  *)
(***************************************************************************)
EXTENDS Integers, Sequences, FiniteSets, TLC

\* ------------------------------------------------------------------ bounds
NumCalls == 2        \* concurrent execute invocations
NumRegTasks == 2     \* concurrent mock-registry invocations
MaxStamp == 2        \* distinct readings the system clock can return
Workers == 2         \* worker threads of the host's async runtime
MaxArgs == 2         \* longest argument list of an execute request
MaxEvents == 2       \* events emitted on the topic of one call

Calls == 1..NumCalls
RegTasks == (NumCalls + 1)..(NumCalls + NumRegTasks)
Tasks == Calls \cup RegTasks
Stamps == 1..MaxStamp

\* ------------------------------------------------------- JSON-like values
\* Every value is a record [t, s] of two strings: t the type, s the content.
JNum(s) == [t |-> "num", s |-> s]
JStr(s) == [t |-> "str", s |-> s]
JNull == [t |-> "null", s |-> ""]
Absent == [t |-> "absent", s |-> ""]

\* JavaScript values a script can resolve to or throw.
JsNumber(s) == [t |-> "number", s |-> s]
JsString(s) == [t |-> "string", s |-> s]
JsUndefined == [t |-> "undefined", s |-> ""]
JsNull == [t |-> "jsnull", s |-> ""]
JsError(m) == [t |-> "Error", s |-> m]

\* JSON.stringify(result), commands.rs line 102: the JSON text of a value, or
\* undefined (Absent) for undefined.
JSON_stringify(v) ==
    CASE v.t = "number" -> v.s
      [] v.t = "string" -> IF v.s = "x" THEN "\"x\"" ELSE "\"?\""
      [] v.t = "jsnull" -> "null"
      [] OTHER -> "undefined"

\* serde_json::from_str::<Value>(json_str), commands.rs line 64.
ParseFail == [t |-> "parsefail", s |-> ""]
from_str(text) ==
    CASE text = "2" -> JNum("2")
      [] text = "7" -> JNum("7")
      [] text = "\"x\"" -> JStr("x")
      [] text = "null" -> JNull
      [] OTHER -> ParseFail

\* crate::Result<JsonValue>
Ok(v) == [tag |-> "Ok", val |-> v]
ExecuteError(m) == [tag |-> "ExecuteError", val |-> JStr(m)]
NoResult == [tag |-> "none", val |-> Absent]
TimeoutError == ExecuteError("Timeout waiting for execute result")
EvalRejected == ExecuteError("eval rejected")

\* ---------------------------------------------------- completion envelope
\* What the script evaluated in the webview did.
Resolved(v) == [kind |-> "resolved", v |-> v]
Threw(e) == [kind |-> "threw", v |-> e]
NotSettled == [kind |-> "pending", v |-> JsUndefined]
NotDispatched == [kind |-> "none", v |-> JsUndefined]
ScriptOutcomes ==
    { Resolved(JsNumber("2")), Resolved(JsUndefined), Threw(JsError("boom")) }

\* The emission paths of the webview: window.__TAURI__.event.emit, the
\* dynamically imported @tauri-apps/api/event, or neither.
EmitPaths == {"global", "import", "none"}

\* The event payload: a JSON object with optional fields result and error.
Payload(r, e) == [result |-> r, error |-> e]
NoEmit == [result |-> ParseFail, error |-> ParseFail]

\* const errorMsg = error.message || String(error), line 112.
errorMsg(e) ==
    IF e.t = "Error" THEN (IF e.s # "" THEN e.s ELSE "Error") ELSE e.s

\* The envelope of lines 97-123: the payload emitted on the call's topic, or
\* NoEmit when nothing is emitted.  A field whose value is undefined is
\* dropped by the JSON serialisation of the event payload.
script_with_return(out, path) ==
    IF path = "none" THEN NoEmit
    ELSE IF out.kind = "threw" /\ out.v.t \in {"jsnull", "undefined"}
    THEN NoEmit     \* error.message itself throws inside the catch block
    ELSE IF out.kind = "resolved"
         THEN LET jsonResult == JSON_stringify(out.v)
              IN IF jsonResult = "undefined" THEN Payload(Absent, Absent)
                 ELSE Payload(JStr(jsonResult), Absent)
         ELSE Payload(Absent, JStr(errorMsg(out.v)))

\* A listener that looks at the error field first.
listener_error_first(payload) ==
    IF payload.error # Absent
    THEN ExecuteError(IF payload.error.t = "str" THEN payload.error.s
                      ELSE "Unknown error")
    ELSE IF payload.result # Absent
         THEN IF payload.result.t = "str"
              THEN LET parsed == from_str(payload.result.s)
                   IN IF parsed # ParseFail THEN Ok(parsed)
                      ELSE ExecuteError("Failed to parse result JSON")
              ELSE Ok(payload.result)
         ELSE NoResult

\* The listener closure of lines 55-92: what it sends on the channel for a
\* payload, or NoResult when it sends nothing.
listener(payload) ==
    IF payload.result # Absent
    THEN IF payload.result.t = "str"
         THEN LET parsed == from_str(payload.result.s)
              IN IF parsed # ParseFail THEN Ok(parsed)
                 ELSE ExecuteError("Failed to parse result JSON")
         ELSE Ok(payload.result)
    ELSE IF payload.error # Absent
         THEN ExecuteError(IF payload.error.t = "str" THEN payload.error.s
                           ELSE "Unknown error")
         ELSE NoResult

\* event.payload(): a text that is a JSON value, or is not.
Json(payload) == [valid |-> TRUE, payload |-> payload]
NotJson == [valid |-> FALSE, payload |-> Payload(Absent, Absent)]
NoEvent == [valid |-> FALSE, payload |-> NoEmit]
\* The events any code of the webview can emit on a topic: result is left
\* out, a string that decodes, a string that does not, or a number; error is
\* left out, a string, or a number.
EventPayloads ==
    [result : {Absent, JStr("2"), JStr("oops"), JNum("7")},
     error : {Absent, JStr("boom"), JNum("7")}]
RawEvents == {NotJson} \cup {Json(p) : p \in EventPayloads}

\* A closure that fails the call on a payload that is not JSON.
on_event_rejects_garbage(ev) ==
    IF ev.valid THEN listener(ev.payload)
    ELSE ExecuteError("Failed to parse event payload as JSON")
\* The closure of lines 56-91 on the event's text: serde_json::from_str on
\* line 57, Err on lines 89-91.
on_event(ev) == IF ev.valid THEN listener(ev.payload) ELSE NoResult

\* Lines 104-110 and 113-119: window.__TAURI__?.event?.emit if it is there,
\* else the emit of the imported module, which may fail to load.
emit_path(has_global, has_import) ==
    IF has_global THEN "global" ELSE IF has_import THEN "import" ELSE "none"

\* What a script can resolve to or throw.
EnvelopeOutcomes ==
    ScriptOutcomes \cup
    { Resolved(JsString("x")), Resolved(JsNull), Threw(JsString("oops")),
      Threw(JsError("")), Threw(JsNull) }
\* One completion on its way from the webview to the channel.
Completion(stage, out, g, i, via, ev, sent) ==
    [stage |-> stage, outcome |-> out, has_global |-> g, has_import |-> i,
     via |-> via, event |-> ev, sent |-> sent]
NoCompletion == Completion("none", NotDispatched, FALSE, FALSE, "none", NoEvent, NoResult)

\* ------------------------------------------------------------ mock store
Commands == {"foo", "bar"}
MockConfig(c, rv, impl) ==
    [command |-> c, return_value |-> rv, implementation |-> impl]
MockConfigs ==
    { MockConfig("foo", JNum("42"), Absent),
      MockConfig("bar", Absent, JStr("() => 1")) }
NoMock == MockConfig("", Absent, Absent)

\* MockStore::new, mock_store.rs lines 12-17.
MockStore_new == [mocks |-> [c \in Commands |-> NoMock], original_handlers |-> {}]
\* An insert that also files the command under the original handlers.
MockStore_set_mock_saving_original(st, command, config) ==
    [mocks |-> [st.mocks EXCEPT ![command] = config],
     original_handlers |-> st.original_handlers \cup {command}]
\* An insert into a map emptied first.
MockStore_set_mock_alone(st, command, config) ==
    [st EXCEPT !.mocks = [c \in Commands |-> IF c = command THEN config ELSE NoMock]]
\* An insert keyed by the config's own command field.
MockStore_set_mock_by_config(st, command, config) ==
    [st EXCEPT !.mocks = [st.mocks EXCEPT ![config.command] = config]]
\* MockStore::set_mock, lines 19-21: self.mocks.insert(command, config).
MockStore_set_mock(st, command, config) ==
    [st EXCEPT !.mocks = [st.mocks EXCEPT ![command] = config]]
\* A lookup that finds nothing.
MockStore_get_mock_none(st, command) == NoMock
\* MockStore::get_mock, lines 23-25.
MockStore_get_mock(st, command) == st.mocks[command]
\* A clear that removes nothing.
MockStore_clear_mocks_noop(st) == st
\* MockStore::clear_mocks, lines 27-29.
MockStore_clear_mocks(st) == [st EXCEPT !.mocks = [c \in Commands |-> NoMock]]
\* A reset that empties the original handlers only.
MockStore_reset_mocks_handlers_only(st) == [st EXCEPT !.original_handlers = {}]
\* MockStore::reset_mocks, lines 31-34.
MockStore_reset_mocks(st) ==
    [mocks |-> [c \in Commands |-> NoMock], original_handlers |-> {}]

\* Every value a MockStore can hold; the program itself never inserts into
\* original_handlers.
AllMocks == [Commands -> MockConfigs \cup {NoMock}]
AllStores == [mocks : AllMocks, original_handlers : SUBSET Commands]
\* The stores a run of set_mock commands can have left behind.
SetStores == [mocks : AllMocks, original_handlers : {{}}]

\* crate::Result of a registry command: Ok(()) and Ok(None) carry NoMock.
RegOk(v) == [tag |-> "Ok", val |-> v, msg |-> ""]
MockError(m) == [tag |-> "MockError", val |-> NoMock, msg |-> m]
NoReturn == [tag |-> "none", val |-> NoMock, msg |-> ""]
StoreNotFound == MockError("Mock store not found")
LockFailed == MockError("Failed to lock mock store: poisoned lock")

\* What try_state and lock() find: the managed store, no managed store, or a
\* mutex poisoned by a task that panicked while holding it.
Healths == {"ok", "unmanaged", "poisoned"}

Requests ==
    [op : {"set_mock"}, command : Commands, config : MockConfigs]
    \cup [op : {"get_mock"}, command : Commands, config : {NoMock}]
    \cup [op : {"clear_mocks", "reset_mocks", "restore_mocks"},
          command : {""}, config : {NoMock}]
NoRequest == [op |-> "none", command |-> "", config |-> NoMock]

\* ------------------------------------------------------- execute request
\* Source text is a sequence of pieces; format! puts pieces one after another.
Scripts == {"1+1", "undefinedFn()", "__wdio_args[0]"}
ArgValues == {JNum("1"), JStr("x"), JNull}
ArgLists == UNION {[1..n -> ArgValues] : n \in 0..MaxArgs}

\* The invoke payload of execute: args is a list or is left out.
Wires ==
    {w \in [script : Scripts, has_args : BOOLEAN, args : ArgLists] :
        ~w.has_args => w.args = <<>>}
NoWire == [script |-> "", has_args |-> FALSE, args |-> <<>>]

\* ExecuteRequest, models.rs lines 4-11: #[serde(default)] gives an omitted
\* args the empty Vec.
ExecuteRequest(w) ==
    [script |-> w.script, args |-> IF w.has_args THEN w.args ELSE <<>>]
NoExecuteRequest == [script |-> "", args |-> <<>>]

\* serde_json::to_string of one value and of the Vec, commands.rs line 23.
value_to_string(v) ==
    CASE v.t = "num" -> <<v.s>>
      [] v.t = "str" -> <<"\"", v.s, "\"">>
      [] OTHER -> <<"null">>
\* A serializer that writes the last element first.
RECURSIVE elements_to_string_reversed(_)
elements_to_string_reversed(a) ==
    IF a = <<>> THEN <<>>
    ELSE IF Len(a) = 1 THEN value_to_string(a[1])
    ELSE elements_to_string_reversed(Tail(a)) \o <<",">> \o value_to_string(a[1])
RECURSIVE elements_to_string(_)
elements_to_string(a) ==
    IF a = <<>> THEN <<>>
    ELSE IF Len(a) = 1 THEN value_to_string(a[1])
    ELSE value_to_string(a[1]) \o <<",">> \o elements_to_string(Tail(a))
to_string(a) == <<"[">> \o elements_to_string(a) \o <<"]">>

\* The wrapper of line 27 around the script and the serialized args.
wrap_args(args_json, text) ==
    <<"(function() { const __wdio_args = ">> \o args_json
        \o <<"; return (", text, "); })()">>
\* A builder that wraps whether or not there are args.
prepare_always_wrapped(r) == wrap_args(to_string(r.args), r.script)
\* let script = if !request.args.is_empty() {..} else { request.script },
\* lines 21-30.
prepare(r) ==
    IF r.args # <<>> THEN wrap_args(to_string(r.args), r.script)
    ELSE <<r.script>>
NotPrepared == <<>>

\* The webview reading the wrapper of line 27: the value of one literal at
\* the head of the pieces and the pieces after it.
js_literal(text) ==
    CASE text[1] = "\"" -> [v |-> JStr(text[2]), rest |-> SubSeq(text, 4, Len(text))]
      [] text[1] = "null" -> [v |-> JNull, rest |-> Tail(text)]
      [] OTHER -> [v |-> JNum(text[1]), rest |-> Tail(text)]
\* The elements between the brackets of an array literal, in order.
RECURSIVE js_elements(_)
js_elements(text) ==
    IF text = <<>> THEN <<>>
    ELSE LET first == js_literal(text)
         IN <<first.v>> \o (IF first.rest = <<>> THEN <<>>
                            ELSE js_elements(Tail(first.rest)))
js_array(text) == js_elements(SubSeq(text, 2, Len(text) - 1))
\* Where the wrapper's return statement starts.
return_at(text) == CHOOSE k \in 1..Len(text) : text[k] = "; return ("
\* const __wdio_args = <array literal>: the value bound inside the function.
wdio_args(text) == js_array(SubSeq(text, 2, return_at(text) - 1))
\* return (<expression>): the expression evaluated in that scope.
returned_expression(text) == text[return_at(text) + 1]
\* What the scripts evaluate to where __wdio_args is bound to args.
script_value(expression, args) ==
    CASE expression = "1+1" -> JNum("2")
      [] expression = "__wdio_args[0]" -> args[1]
      [] OTHER -> JStr("ReferenceError: undefinedFn is not defined")

\* --------------------------------------------------------- dispatch shim
\* The names a caller can dispatch: the mockable commands and execute.
DispatchNames == Commands \cup {"execute"}
\* The real handler behind a name; for execute it is the execute bridge.
RealHandler(name) == IF name = "execute" THEN "commands::execute" ELSE name
\* What a dispatch that reached the real handler returns.
HandlerOutcome(name) == [t |-> "handled", s |-> RealHandler(name)]
\* The value of an override: its return_value, else what its implementation
\* gives.
OverrideValue(cfg) ==
    IF cfg.return_value # Absent THEN cfg.return_value
    ELSE [t |-> "synthesized", s |-> cfg.implementation.s]
NoDispatch ==
    [pc |-> "idle", name |-> "", override |-> NoMock, result |-> Absent,
     invoked |-> "", seen |-> NoRequest]

\* ------------------------------------------------------------------ state
VARIABLES
    pc,          \* where each command invocation stands
    timestamp,   \* execute: the clock reading its event id is formatted from
    listeners,   \* the app's listener table: the calls whose listener is in it
    unlistened,  \* execute: how many times the call removed a listener
    chan,        \* execute: what the listener sent into the call's channel
    ret,         \* execute: the value of recv_timeout, then the call's result
    script,      \* webview: what the call's dispatched script did
    store,       \* the managed MockStore
    lock,        \* the task holding the store's mutex, 0 when free
    req,         \* registry command: its arguments
    regret,      \* registry command: its result
    health,      \* what try_state and lock() find
    lastMutation, \* history: the last mutating request applied to the store
    seen,        \* history: the last mutation before the command's own access
    wire,        \* script builder: the invoke payload received
    request,     \* script builder: the deserialized ExecuteRequest
    prepared,    \* script builder: the effective script
    dispatch,    \* dispatch shim: the dispatch in progress
    completion,  \* envelope and listener: one completion on its way
    events       \* history: the events emitted on the topic of call 1

vars == <<pc, timestamp, listeners, unlistened, chan, ret, script,
          store, lock, req, regret, health, lastMutation, seen,
          wire, request, prepared, dispatch, completion, events>>
execVars == <<timestamp, listeners, unlistened, chan, ret, script>>
regVars == <<store, lock, req, regret, health, lastMutation, seen>>
scriptVars == <<wire, request, prepared>>
\* No execute request is being prepared and nothing is being dispatched.
NoScript == wire = NoWire /\ request = NoExecuteRequest /\ prepared = NotPrepared
NoShim == dispatch = NoDispatch
relayVars == <<completion, events>>
\* No completion is followed and no event was emitted.
NoRelay == completion = NoCompletion /\ events = <<>>
\* What the execute bridge and the registry commands never touch.
sideVars == <<scriptVars, dispatch, relayVars>>

\* let event_id = format!("wdio:execute:{}", timestamp), line 48.
event_id(c) == <<"wdio:execute", timestamp[c]>>

\* A command occupies a runtime worker from its first statement to its return.
Running(t) == pc[t] \notin {"queued", "done"}
FreeWorker == Cardinality({t \in Tasks : Running(t)}) < Workers

Init ==
    /\ pc = [t \in Tasks |-> "queued"]
    /\ timestamp = [c \in Calls |-> 0]
    /\ listeners = {}
    /\ unlistened = [c \in Calls |-> 0]
    /\ chan = [c \in Calls |-> <<>>]
    /\ ret = [c \in Calls |-> NoResult]
    /\ script = [c \in Calls |-> NotDispatched]
    /\ store = MockStore_new
    /\ lock = 0
    /\ req = [r \in RegTasks |-> NoRequest]
    /\ regret = [r \in RegTasks |-> NoReturn]
    /\ health = "ok"
    /\ lastMutation = NoRequest
    /\ seen = [r \in RegTasks |-> NoRequest]
    /\ NoScript
    /\ NoShim
    /\ NoRelay

\* ---------------------------------------------------------------- execute
\* A registration that does not reach the table.
listen_skipped(ls, c) == ls
\* app_handle.listen(&event_id, ...), line 55.
listen(ls, c) == ls \cup {c}
\* A teardown that leaves the listener in the table.
unlisten_kept(ls, c) == ls
\* app_handle.unlisten(listener_id), lines 133, 137, 141.
unlisten(ls, c) == ls \ {c}
\* A receive that takes the newest message instead of the oldest.
recv_newest(q) == q[Len(q)]
\* rx.recv_timeout: the first message of the channel, lines 131-139.
recv(q) == q[1]
\* A timeout that fires although a message is waiting.
recv_timed_out_anyway(q) == TRUE
\* A wait without a timeout.
recv_timed_out_never(q) == FALSE
\* rx.recv_timeout: Err(_) only when no message came within the 30 seconds.
recv_timed_out(q) == q = <<>>

\* The clock readings taken so far.
Readings == {timestamp[d] : d \in {x \in Calls : pc[x] # "queued"}}

\* SystemTime::now(), lines 44-47: a reading equal to an earlier one, or a new
\* one.  Readings are only ever compared for equality (as event ids), so a
\* new reading is named by the least stamp not yet taken.
Clock(now) == \A s \in Stamps : s < now => s \in Readings

\* Lines 41-55: the runtime starts the command on a free worker; it reads the
\* system clock, formats the event id and registers the listener.
Begin(c, now) ==
    /\ pc[c] = "queued"
    /\ FreeWorker
    /\ Clock(now)
    /\ timestamp' = [timestamp EXCEPT ![c] = now]
    /\ listeners' = listen(listeners, c)
    /\ pc' = [pc EXCEPT ![c] = "listening"]
    /\ UNCHANGED <<sideVars, unlistened, chan, ret, script, regVars>>

\* Lines 126-128: window.eval accepts the envelope, or rejects it and the
\* command returns through `?`.
EvalOk(c) ==
    /\ pc[c] = "listening"
    /\ script' = [script EXCEPT ![c] = NotSettled]
    /\ pc' = [pc EXCEPT ![c] = "waiting"]
    /\ UNCHANGED <<sideVars, timestamp, listeners, unlistened, chan, ret, regVars>>

\* A rejected eval after which the command waits all the same.
EvalErr_waits(c) ==
    /\ pc[c] = "listening"
    /\ pc' = [pc EXCEPT ![c] = "waiting"]
    /\ UNCHANGED <<sideVars, timestamp, listeners, unlistened, chan, ret,
                   script, regVars>>

\* Lines 126-128, Err: map_err makes the ExecuteError of the rejection text
\* and `?` returns it.
EvalErr(c) ==
    /\ pc[c] = "listening"
    /\ ret' = [ret EXCEPT ![c] = EvalRejected]
    /\ pc' = [pc EXCEPT ![c] = "done"]
    /\ UNCHANGED <<sideVars, timestamp, listeners, unlistened, chan, script, regVars>>

\* The listeners an event on the topic of call c is delivered to.
Hearing(c) == {d \in listeners : event_id(d) = event_id(c)}

\* Lines 97-123 and 55-92: the webview settles the script of call c, the
\* envelope emits, and the app runs every listener registered on the topic.
\* A send on a channel whose receiver is gone fails and is ignored.
Settle(c, out, path) ==
    /\ script[c] = NotSettled
    /\ script' = [script EXCEPT ![c] = out]
    /\ LET payload == script_with_return(out, path)
           sent == IF payload = NoEmit THEN NoResult ELSE listener(payload)
       IN chan' = [d \in Calls |->
                     IF d \in Hearing(c) /\ sent # NoResult /\ pc[d] # "done"
                     THEN Append(chan[d], [src |-> c, res |-> sent])
                     ELSE chan[d]]
    /\ UNCHANGED <<sideVars, pc, timestamp, listeners, unlistened, ret, regVars>>

\* Line 131, Ok(_): recv_timeout returns the first message.
Recv(c) ==
    /\ pc[c] = "waiting"
    /\ chan[c] # <<>>
    /\ ret' = [ret EXCEPT ![c] = recv(chan[c]).res]
    /\ pc' = [pc EXCEPT ![c] = "woken"]
    /\ UNCHANGED <<sideVars, timestamp, listeners, unlistened, chan, script, regVars>>

\* Line 131, Err(_): the 30 seconds elapse with no message.
Timeout(c) ==
    /\ pc[c] = "waiting"
    /\ recv_timed_out(chan[c])
    /\ ret' = [ret EXCEPT ![c] = TimeoutError]
    /\ pc' = [pc EXCEPT ![c] = "woken"]
    /\ UNCHANGED <<sideVars, timestamp, listeners, unlistened, chan, script, regVars>>

\* Lines 132-143: the arm taken removes the listener and returns.
Unlisten(c) ==
    /\ pc[c] = "woken"
    /\ listeners' = unlisten(listeners, c)
    /\ unlistened' = [unlistened EXCEPT ![c] = @ + 1]
    /\ pc' = [pc EXCEPT ![c] = "done"]
    /\ UNCHANGED <<sideVars, timestamp, chan, ret, script, regVars>>

\* ------------------------------------------------------ registry commands
\* A try_state that takes the store for granted.
try_state_unchecked(h) == TRUE
\* app.try_state::<Arc<Mutex<MockStore>>>(), lines 154-156: Some or None.
try_state(h) == h # "unmanaged"
\* A lock that does not wait for its holder.
mutex_free_always(l) == TRUE
\* Mutex::lock, lines 158-160: it returns once no other task holds the mutex.
mutex_free(l) == l = 0
\* A guard that is never dropped.
drop_guard_leaked(l) == l
\* The MutexGuard `store` goes out of scope at the return, lines 163-164.
drop_guard(l) == 0

\* Lines 154-156 (and the like): the runtime starts the command on a free
\* worker; try_state finds the store that init manages.
RegBegin(r, rq) ==
    /\ pc[r] = "queued"
    /\ FreeWorker
    /\ try_state(health)
    /\ req' = [req EXCEPT ![r] = rq]
    /\ pc' = [pc EXCEPT ![r] = "locking"]
    /\ UNCHANGED <<sideVars, execVars, store, lock, regret, health, lastMutation, seen>>

\* Lines 154-156, None: ok_or_else gives the MockError, `?` returns it.
RegNoStore(r, rq) ==
    /\ pc[r] = "queued"
    /\ FreeWorker
    /\ ~try_state(health)
    /\ req' = [req EXCEPT ![r] = rq]
    /\ regret' = [regret EXCEPT ![r] = StoreNotFound]
    /\ pc' = [pc EXCEPT ![r] = "done"]
    /\ UNCHANGED <<sideVars, execVars, store, lock, health, lastMutation, seen>>

\* mock_store.lock(), lines 158-160, Ok.
RegLock(r) ==
    /\ pc[r] = "locking"
    /\ mutex_free(lock)
    /\ health # "poisoned"
    /\ lock' = r
    /\ pc' = [pc EXCEPT ![r] = "locked"]
    /\ UNCHANGED <<sideVars, execVars, store, req, regret, health, lastMutation, seen>>

\* mock_store.lock(), lines 158-160, Err: the PoisonError and the guard in it
\* are dropped by map_err, `?` returns the MockError.
RegLockPoisoned(r) ==
    /\ pc[r] = "locking"
    /\ mutex_free(lock)
    /\ health = "poisoned"
    /\ regret' = [regret EXCEPT ![r] = LockFailed]
    /\ pc' = [pc EXCEPT ![r] = "done"]
    /\ UNCHANGED <<sideVars, execVars, store, lock, req, health, lastMutation, seen>>

\* A get_mock that takes the entry out of the store.
apply_get_removes(st, rq) ==
    CASE rq.op = "set_mock" -> MockStore_set_mock(st, rq.command, rq.config)
      [] rq.op = "get_mock" -> MockStore_set_mock(st, rq.command, NoMock)
      [] rq.op = "clear_mocks" -> MockStore_clear_mocks(st)
      [] OTHER -> MockStore_reset_mocks(st)
\* A restore_mocks that leaves the original handlers in place.
apply_restore_clears(st, rq) ==
    CASE rq.op = "set_mock" -> MockStore_set_mock(st, rq.command, rq.config)
      [] rq.op = "clear_mocks" -> MockStore_clear_mocks(st)
      [] rq.op = "reset_mocks" -> MockStore_reset_mocks(st)
      [] rq.op = "restore_mocks" -> MockStore_clear_mocks(st)
      [] OTHER -> st
\* The store after the command's call on it.
apply(st, rq) ==
    CASE rq.op = "set_mock" -> MockStore_set_mock(st, rq.command, rq.config)
      [] rq.op = "clear_mocks" -> MockStore_clear_mocks(st)
      [] rq.op = "reset_mocks" -> MockStore_reset_mocks(st)
      [] rq.op = "restore_mocks" -> MockStore_reset_mocks(st)
      [] OTHER -> st

\* What the command returns: Ok(store.get_mock(&command).cloned()), line 180,
\* or Ok(()).
returned(st, rq) ==
    IF rq.op = "get_mock" THEN RegOk(MockStore_get_mock(st, rq.command))
    ELSE RegOk(NoMock)

Mutating(rq) == rq.op \in {"set_mock", "clear_mocks", "reset_mocks", "restore_mocks"}

\* Lines 162-164 (and the like): the call on the store, the guard dropped,
\* the command returns.
RegApply(r) ==
    /\ pc[r] = "locked"
    /\ store' = apply(store, req[r])
    /\ regret' = [regret EXCEPT ![r] = returned(store, req[r])]
    /\ lastMutation' = IF Mutating(req[r]) THEN req[r] ELSE lastMutation
    /\ seen' = [seen EXCEPT ![r] = lastMutation]
    /\ lock' = drop_guard(lock)
    /\ pc' = [pc EXCEPT ![r] = "done"]
    /\ UNCHANGED <<sideVars, execVars, req, health>>

\* ------------------------------------------------------------------- spec
HostStep(c) ==
    \/ \E now \in Stamps : Begin(c, now)
    \/ EvalOk(c)
    \/ EvalErr(c)
    \/ Recv(c)
    \/ Timeout(c)
    \/ Unlisten(c)

RegStep(r) ==
    \/ \E rq \in Requests : RegBegin(r, rq)
    \/ RegLock(r)
    \/ RegApply(r)

Remote == \E c \in Calls, out \in ScriptOutcomes, path \in EmitPaths : Settle(c, out, path)

Next ==
    \/ \E c \in Calls : HostStep(c)
    \/ \E r \in RegTasks : RegStep(r)
    \/ Remote

Spec == Init /\ [][Next]_vars

\* The registry commands alone, on whatever a run of set_mock commands left
\* in the store, with the store managed, missing or poisoned.
RegInit ==
    /\ pc = [t \in Tasks |-> "queued"]
    /\ timestamp = [c \in Calls |-> 0]
    /\ listeners = {}
    /\ unlistened = [c \in Calls |-> 0]
    /\ chan = [c \in Calls |-> <<>>]
    /\ ret = [c \in Calls |-> NoResult]
    /\ script = [c \in Calls |-> NotDispatched]
    /\ store \in SetStores
    /\ lock = 0
    /\ req = [r \in RegTasks |-> NoRequest]
    /\ regret = [r \in RegTasks |-> NoReturn]
    /\ health \in Healths
    /\ lastMutation = NoRequest
    /\ seen = [r \in RegTasks |-> NoRequest]
    /\ NoScript
    /\ NoShim
    /\ NoRelay

RegCommand(r) ==
    \/ \E rq \in Requests : RegBegin(r, rq)
    \/ \E rq \in Requests : RegNoStore(r, rq)
    \/ RegLock(r)
    \/ RegLockPoisoned(r)
    \/ RegApply(r)

RegNext == \E r \in RegTasks : RegCommand(r)

RegSpec == RegInit /\ [][RegNext]_vars

\* An execute call whose script never completes: it holds its worker from
\* its first statement until its 30 seconds have elapsed.
\* The calls read the same clock value: no event is delivered here.
PendingCall(c) ==
    \/ Begin(c, 1)
    \/ EvalOk(c)
    \/ Timeout(c)
    \/ Unlisten(c)

\* One write, one read and one wipe of the table: the commands take and drop
\* the mutex alike whatever they are asked.
BusyRequests ==
    {rq \in Requests :
        /\ rq.op \in {"set_mock", "get_mock", "restore_mocks"}
        /\ rq.command \in {"", "foo"} /\ rq.config.command \in {"", "foo"}}

BusyCommand(r) ==
    \/ \E rq \in BusyRequests : RegBegin(r, rq)
    \/ \E rq \in BusyRequests : RegNoStore(r, rq)
    \/ RegLock(r)
    \/ RegLockPoisoned(r)
    \/ RegApply(r)

\* The store as init manages it, or missing, or poisoned.
BusyInit == RegInit /\ store = MockStore_new

\* The registry commands next to execute calls that stay pending.
BusyNext ==
    \/ \E r \in RegTasks : BusyCommand(r)
    \/ \E c \in Calls : PendingCall(c)

\* The host's threads are scheduled fairly, and a wait's 30 seconds elapse.
FairBusySpec == BusyInit /\ [][BusyNext]_vars /\ WF_vars(BusyNext)

\* The MockStore methods on any store at all, original handlers included.
StoreInit ==
    /\ pc = [t \in Tasks |-> "queued"]
    /\ timestamp = [c \in Calls |-> 0]
    /\ listeners = {}
    /\ unlistened = [c \in Calls |-> 0]
    /\ chan = [c \in Calls |-> <<>>]
    /\ ret = [c \in Calls |-> NoResult]
    /\ script = [c \in Calls |-> NotDispatched]
    /\ store \in AllStores
    /\ lock = 0
    /\ req = [r \in RegTasks |-> NoRequest]
    /\ regret = [r \in RegTasks |-> NoReturn]
    /\ health \in Healths
    /\ lastMutation = NoRequest
    /\ seen = [r \in RegTasks |-> NoRequest]
    /\ NoScript
    /\ NoShim
    /\ NoRelay

StoreSpec == StoreInit /\ [][RegNext]_vars

\* ---------------------------------------------------------- script builder
\* The invoke payload is deserialized into the ExecuteRequest argument of
\* execute, commands.rs line 13.
Deserialize ==
    /\ wire # NoWire
    /\ request = NoExecuteRequest
    /\ request' = ExecuteRequest(wire)
    /\ UNCHANGED <<pc, execVars, regVars, relayVars, wire, prepared, dispatch>>

\* Lines 21-30: the effective script.
Prepare ==
    /\ request # NoExecuteRequest
    /\ prepared = NotPrepared
    /\ prepared' = prepare(request)
    /\ UNCHANGED <<pc, execVars, regVars, relayVars, wire, request, dispatch>>

\* Every payload execute can be invoked with.
ScriptInit ==
    /\ pc = [t \in Tasks |-> "queued"]
    /\ timestamp = [c \in Calls |-> 0]
    /\ listeners = {}
    /\ unlistened = [c \in Calls |-> 0]
    /\ chan = [c \in Calls |-> <<>>]
    /\ ret = [c \in Calls |-> NoResult]
    /\ script = [c \in Calls |-> NotDispatched]
    /\ store = MockStore_new
    /\ lock = 0
    /\ req = [r \in RegTasks |-> NoRequest]
    /\ regret = [r \in RegTasks |-> NoReturn]
    /\ health = "ok"
    /\ lastMutation = NoRequest
    /\ seen = [r \in RegTasks |-> NoRequest]
    /\ wire \in Wires
    /\ request = NoExecuteRequest
    /\ prepared = NotPrepared
    /\ NoShim
    /\ NoRelay

ScriptNext == Deserialize \/ Prepare

ScriptSpec == ScriptInit /\ [][ScriptNext]_vars

\* ----------------------------------------------------------- dispatch shim
\* A caller dispatches a command by name.
ShimDispatch(name) ==
    /\ dispatch.pc = "idle"
    /\ dispatch' = [dispatch EXCEPT !.pc = "asking", !.name = name]
    /\ UNCHANGED <<pc, execVars, regVars, relayVars, scriptVars>>

\* The shim asks the registry for an override of the name: a lookup under
\* the store's mutex.
ShimAsk ==
    /\ dispatch.pc = "asking"
    /\ mutex_free(lock)
    /\ dispatch' = [dispatch EXCEPT
                       !.pc = "asked",
                       !.override = IF dispatch.name \in Commands
                                    THEN MockStore_get_mock(store, dispatch.name)
                                    ELSE NoMock,
                       !.seen = lastMutation]
    /\ UNCHANGED <<pc, execVars, regVars, relayVars, scriptVars>>

\* An override is present: the shim returns its value.
ShimOverride ==
    /\ dispatch.pc = "asked"
    /\ dispatch.override # NoMock
    /\ dispatch' = [dispatch EXCEPT
                       !.pc = "done", !.result = OverrideValue(dispatch.override)]
    /\ UNCHANGED <<pc, execVars, regVars, relayVars, scriptVars>>

\* No override: the shim invokes the real handler and returns its outcome.
ShimHandler ==
    /\ dispatch.pc = "asked"
    /\ dispatch.override = NoMock
    /\ dispatch' = [dispatch EXCEPT
                       !.pc = "done",
                       !.invoked = RealHandler(dispatch.name),
                       !.result = HandlerOutcome(dispatch.name)]
    /\ UNCHANGED <<pc, execVars, regVars, relayVars, scriptVars>>

Shim ==
    \/ \E name \in DispatchNames : ShimDispatch(name)
    \/ ShimAsk
    \/ ShimOverride
    \/ ShimHandler

ShimNext ==
    \/ \E r \in RegTasks : RegStep(r)
    \/ Shim

\* The store is managed and its mutex sound.
ShimInit == RegInit /\ health = "ok"

\* One dispatch next to the registry commands.
ShimSpec == ShimInit /\ [][ShimNext]_vars

\* ------------------------------------------------- envelope and listener
\* Lines 97-123: the script has settled; the envelope emits its payload on
\* the path it finds, or emits nothing.
Envelope ==
    /\ completion.stage = "settled"
    /\ LET path == emit_path(completion.has_global, completion.has_import)
           payload == script_with_return(completion.outcome, path)
       IN completion' = [completion EXCEPT
                            !.stage = "emitted",
                            !.via = IF payload = NoEmit THEN "none" ELSE path,
                            !.event = IF payload = NoEmit THEN NoEvent
                                      ELSE Json(payload)]
    /\ UNCHANGED <<pc, execVars, regVars, scriptVars, dispatch, events>>

\* Lines 55-92: the app runs the listener on the event, if there is one.
Listen ==
    /\ completion.stage = "emitted"
    /\ completion' = [completion EXCEPT
                         !.stage = "heard",
                         !.sent = IF completion.event = NoEvent THEN NoResult
                                  ELSE on_event(completion.event)]
    /\ UNCHANGED <<pc, execVars, regVars, scriptVars, dispatch, events>>

\* A script that settled any way a script can, with any of the emit handles
\* there or not; or any event at all on the topic.
EnvelopeInit ==
    /\ pc = [t \in Tasks |-> "queued"]
    /\ timestamp = [c \in Calls |-> 0]
    /\ listeners = {}
    /\ unlistened = [c \in Calls |-> 0]
    /\ chan = [c \in Calls |-> <<>>]
    /\ ret = [c \in Calls |-> NoResult]
    /\ script = [c \in Calls |-> NotDispatched]
    /\ store = MockStore_new
    /\ lock = 0
    /\ req = [r \in RegTasks |-> NoRequest]
    /\ regret = [r \in RegTasks |-> NoReturn]
    /\ health = "ok"
    /\ lastMutation = NoRequest
    /\ seen = [r \in RegTasks |-> NoRequest]
    /\ NoScript
    /\ NoShim
    /\ events = <<>>
    /\ \/ \E out \in EnvelopeOutcomes, g \in BOOLEAN, i \in BOOLEAN :
              completion = Completion("settled", out, g, i, "none", NoEvent, NoResult)
       \/ \E ev \in RawEvents :
              completion = Completion("emitted", NotSettled, FALSE, FALSE, "none", ev, NoResult)

EnvelopeNext == Envelope \/ Listen

EnvelopeSpec == EnvelopeInit /\ [][EnvelopeNext]_vars

\* Code of the webview emits an event on the topic of call c: the envelope
\* of the call, or anything else that knows the topic.  The app runs every
\* listener registered on the topic.
Emit(c, ev) ==
    /\ pc[c] # "queued"
    /\ Len(events) < MaxEvents
    /\ events' = Append(events, ev)
    /\ LET sent == on_event(ev)
       IN chan' = [d \in Calls |->
                     IF d \in Hearing(c) /\ sent # NoResult /\ pc[d] # "done"
                     THEN Append(chan[d], [src |-> c, res |-> sent])
                     ELSE chan[d]]
    /\ UNCHANGED <<pc, timestamp, listeners, unlistened, ret, script, regVars,
                   scriptVars, dispatch, completion>>

\* One execute call and the events on its topic.
ListenNext ==
    \/ HostStep(1)
    \/ \E ev \in RawEvents : Emit(1, ev)

ListenSpec == Init /\ [][ListenNext]_vars

\* The execute bridge alone: no registry command is invoked.
ExecNext ==
    \/ \E c \in Calls : HostStep(c)
    \/ Remote

ExecSpec == Init /\ [][ExecNext]_vars

\* The host makes progress: while some step of some command is possible (a
\* thread can run, or a wait's 30 seconds can elapse), one is eventually
\* taken.  The webview owes nothing.
FairExecSpec == ExecSpec /\ WF_vars(\E c \in Calls : HostStep(c))

\* ----------------------------------------------------------------- claims
\* The call has registered its listener and has not yet returned.
Outstanding(c) == pc[c] \in {"listening", "waiting", "woken"}
\* The call got past window.eval, into the wait.
ReachedWait(c) == script[c] # NotDispatched
\* The call is past recv_timeout.
Woken(c) == ReachedWait(c) /\ pc[c] \in {"woken", "done"}
\* The script of call c settles in this step (its completion is delivered).
Completes(c) == script[c] = NotSettled /\ script'[c] # NotSettled

\* C1: the completion of one execute call never reaches the channel of
\* another call, so it cannot resolve or fail it, equal clock readings
\* included.
NoCrossTalk ==
    \A b \in Calls : \A i \in 1..Len(chan[b]) : chan[b][i].src = b

\* C2: the event ids of the execute calls outstanding at the same time are
\* pairwise distinct, whatever the clock returns.
OutstandingIdsDistinct ==
    \A a, b \in Calls :
        (a # b /\ Outstanding(a) /\ Outstanding(b)) => event_id(a) # event_id(b)

\* C3: an execute call that has returned an error has no listener left in
\* the listener table.
FailedCallLeavesNoListener ==
    \A c \in Calls :
        (pc[c] = "done" /\ ret[c].tag = "ExecuteError") => c \notin listeners

LateCompletionDropped ==
    [][\A c \in Calls :
          (pc[c] = "done" /\ Completes(c)) =>
              UNCHANGED <<sideVars, pc, timestamp, listeners, unlistened, chan, ret,
                          regVars>>]_vars

\* C6: the result of a call past its wait is the first message its listener
\* sent, or the timeout; it never changes afterwards, whatever is delivered
\* on its topic later.
FirstCompletionDecides ==
    /\ [](\A c \in Calls :
            Woken(c) =>
                \/ ret[c] = TimeoutError
                \/ chan[c] # <<>> /\ ret[c] = chan[c][1].res)
    /\ [][\A c \in Calls : Woken(c) => ret'[c] = ret[c]]_vars

\* C6 witness: a call returned its first message although a different one
\* was delivered on its topic afterwards.
DuplicateCompletionIgnored ==
    \E c \in Calls :
        /\ pc[c] = "done" /\ Len(chan[c]) >= 2
        /\ ret[c] = chan[c][1].res /\ chan[c][2].res # ret[c]

\* C7: the wait ends in the timeout error exactly when the listener sent no
\* message before it ended; a call that reached the wait and whose listener
\* never sent anything returns the timeout error.
TimeoutIffNoCompletion ==
    /\ [][\A c \in Calls :
            (pc[c] = "waiting" /\ pc'[c] = "woken") =>
                ((ret'[c] = TimeoutError) <=> (chan[c] = <<>>))]_vars
    /\ [](\A c \in Calls :
            (pc[c] = "done" /\ ReachedWait(c) /\ chan[c] = <<>>) =>
                ret[c] = TimeoutError)

\* C7 witness: the webview never answered and the call returned the timeout.
TimedOutUnanswered ==
    \E c \in Calls :
        pc[c] = "done" /\ script[c] = NotSettled /\ ret[c] = TimeoutError

\* C8: every execute call eventually returns, whatever the webview does.
ExecuteEventuallyReturns == <>(\A c \in Calls : pc[c] = "done")

\* C8 witness: every call has returned, one whose script never settled and
\* one whose only completion carried neither field.
ReturnedDespiteRemote ==
    /\ \A c \in Calls : pc[c] = "done"
    /\ \E c \in Calls : script[c] = NotSettled
    /\ \E c \in Calls : script[c] = Resolved(JsUndefined) /\ ret[c] = TimeoutError

\* C9: a call whose script threw, and whose listener got the envelope's
\* error message before the wait ended, returns the ExecuteError carrying
\* the thrown message.
ThrownMessageReturned ==
    \A c \in Calls :
        ( /\ pc[c] = "done" /\ script[c].kind = "threw"
          /\ ret[c] # TimeoutError
          /\ \E i \in 1..Len(chan[c]) : chan[c][i].src = c ) =>
            ret[c] = ExecuteError(errorMsg(script[c].v))

\* The runtime can start the queued command t.
Start(t) ==
    \/ t \in Calls /\ \E now \in Stamps : Begin(t, now)
    \/ t \in RegTasks /\ \E rq \in Requests : RegBegin(t, rq)

\* C10: while execute calls are blocked in their wait and nothing else is
\* running, every submitted command can be started.
WaitersBlockNobody ==
    \A t \in Tasks :
        ( /\ pc[t] = "queued"
          /\ \E c \in Calls : pc[c] = "waiting"
          /\ \A u \in Tasks : Running(u) => (u \in Calls /\ pc[u] = "waiting") )
        => ENABLED Start(t)

\* The registry command r has returned.
Returned(r) == pc[r] = "done"
\* The registry command r returns in this step.
Returns(r) == pc[r] # "done" /\ pc'[r] = "done"

\* C11: a get_mock(c) whose lookup follows a set_mock(c, cfg), with no
\* mutation in between, returns cfg, whatever cfg names as its command and
\* whatever was stored for c before.
GetReturnsLastSet ==
    \A r \in RegTasks :
        ( /\ Returned(r) /\ req[r].op = "get_mock" /\ regret[r].tag = "Ok"
          /\ seen[r].op = "set_mock" /\ seen[r].command = req[r].command )
        => regret[r].val = seen[r].config

\* C11 witness: get_mock(c) returned a config, stored under c by the set_mock
\* before it, whose own command field is not c.
GotForeignConfig ==
    \E r \in RegTasks :
        /\ Returned(r) /\ req[r].op = "get_mock" /\ regret[r].tag = "Ok"
        /\ seen[r].op = "set_mock" /\ seen[r].command = req[r].command
        /\ regret[r].val = seen[r].config
        /\ seen[r].config.command # req[r].command

\* C12: a get_mock whose lookup follows a clear_mocks, reset_mocks or
\* restore_mocks, with no set_mock in between, returns absent for every
\* command.
GetAbsentAfterClear ==
    \A r \in RegTasks :
        ( /\ Returned(r) /\ req[r].op = "get_mock" /\ regret[r].tag = "Ok"
          /\ seen[r].op \in {"clear_mocks", "reset_mocks", "restore_mocks"} )
        => regret[r].val = NoMock

\* C12 witness: clear_mocks emptied a store that held overrides and the
\* get_mock after it returned absent.
GotAbsentAfterClear ==
    \E r \in RegTasks :
        /\ Returned(r) /\ req[r].op = "get_mock"
        /\ seen[r].op = "clear_mocks" /\ regret[r] = RegOk(NoMock)

\* C13: at most one registry command is inside the store at a time, it is
\* the holder of the mutex, and the store changes only by the holder applying
\* its whole request in one step, a get_mock returning what the store holds
\* at that moment.
RegistryOperationsExclusive ==
    /\ [](/\ Cardinality({r \in RegTasks : pc[r] = "locked"}) <= 1
          /\ \A r \in RegTasks : (pc[r] = "locked") <=> (lock = r))
    /\ [][\A r \in RegTasks :
            /\ (store' # store) =>
                   \E h \in RegTasks :
                       /\ lock = h /\ pc[h] = "locked" /\ Returns(h)
                       /\ store' = apply(store, req[h])
            /\ (Returns(r) /\ regret'[r].tag = "Ok" /\ req[r].op = "get_mock") =>
                   (lock = r /\ regret'[r].val = store.mocks[req[r].command])]_vars

\* C13 witness: one command holds the store while another waits for it.
OneInsideOneWaiting ==
    \E r, w \in RegTasks : pc[r] = "locked" /\ lock = r /\ pc[w] = "locking"

\* C14: a registry command holds the mutex only between its lock() and its
\* return, the holder can always take its next step, and under fair
\* scheduling every registry command returns.
RegistryCommandsReturn ==
    /\ [](\A r \in RegTasks :
            /\ (pc[r] \in {"queued", "locking", "done"}) => lock # r
            /\ (lock = r) => ENABLED RegApply(r))
    /\ <>(lock = 0 /\ \A r \in RegTasks : Returned(r))

\* C14 witness: every registry command has returned, on the success path
\* and with a mutation applied, the mutex is free, and it took the timeout of
\* an execute call to give the last of them a worker.
AllReturnedLockFree ==
    /\ \A r \in RegTasks : Returned(r) /\ regret[r].tag = "Ok"
    /\ lastMutation # NoRequest
    /\ lock = 0
    /\ \E c \in Calls : ret[c] = TimeoutError
    /\ \E c \in Calls : pc[c] = "waiting"

\* C15: a registry command that finds no managed store or a poisoned mutex
\* returns the MockError for it, and the step that fails changes neither the
\* store nor the mutex; a command that returns anything but Ok returns a
\* MockError.
FailedCommandChangesNothing ==
    /\ [](\A r \in RegTasks :
            Returned(r) =>
                /\ (health = "unmanaged") => regret[r] = StoreNotFound
                /\ (health = "poisoned") => regret[r] = LockFailed
                /\ (regret[r].tag # "Ok") => regret[r].tag = "MockError")
    /\ [][\A r \in RegTasks :
            (Returns(r) /\ regret'[r].tag # "Ok") =>
                (store' = store /\ lock' = lock /\ lock # r)]_vars
    /\ [][(health # "ok") => store' = store]_vars

\* C15 witness: a set_mock failed on a missing store and the store does not
\* hold what it was asked to store.
SetMockFailedStoreKept ==
    \E r \in RegTasks :
        /\ Returned(r) /\ req[r].op = "set_mock" /\ regret[r] = StoreNotFound
        /\ store.mocks[req[r].command] # req[r].config

\* C16: get_mock leaves the store as it is, and the value it returned is not
\* changed by anything that happens afterwards.
GetMockCopiesOut ==
    /\ [][\A r \in RegTasks :
            (Returns(r) /\ req'[r].op = "get_mock") => store' = store]_vars
    /\ [][\A r \in RegTasks : Returned(r) => regret'[r] = regret[r]]_vars

\* C16 witness: a get_mock returned an override that a later mutation has
\* removed from the store.
SnapshotOutlivesEntry ==
    \E r \in RegTasks :
        /\ Returned(r) /\ req[r].op = "get_mock" /\ regret[r].tag = "Ok"
        /\ regret[r].val # NoMock
        /\ store.mocks[req[r].command] = NoMock

\* The state st1 holds nothing that st2 does not hold.
Within(st1, st2) ==
    /\ \A c \in Commands :
           st1.mocks[c] # NoMock => st1.mocks[c] = st2.mocks[c]
    /\ st1.original_handlers \subseteq st2.original_handlers

RestoreRequest == [op |-> "restore_mocks", command |-> "", config |-> NoMock]
ResetRequest == [op |-> "reset_mocks", command |-> "", config |-> NoMock]

\* C17: from any store, what reset_mocks leaves is within what clear_mocks
\* leaves, and a reset_mocks command leaves a store within what clear_mocks
\* would have left in its place.
ResetWithinClear ==
    /\ [](Within(MockStore_reset_mocks(store), MockStore_clear_mocks(store)))
    /\ [][\A r \in RegTasks :
            (Returns(r) /\ req[r] = ResetRequest /\ regret'[r].tag = "Ok") =>
                Within(store', MockStore_clear_mocks(store))]_vars

\* C17 witness: a reset_mocks command has returned and the store holds
\* neither overrides nor original handlers.
ResetActed ==
    \E r \in RegTasks :
        /\ Returned(r) /\ req[r] = ResetRequest /\ regret[r] = RegOk(NoMock)
        /\ lastMutation = ResetRequest /\ store = MockStore_new

\* C18: from any store, restore_mocks leaves the store and returns the value
\* that reset_mocks would, and a restore_mocks command leaves exactly that.
RestoreEqualsReset ==
    /\ [](/\ apply(store, RestoreRequest) = apply(store, ResetRequest)
          /\ returned(store, RestoreRequest) = returned(store, ResetRequest))
    /\ [][\A r \in RegTasks :
            (Returns(r) /\ req[r] = RestoreRequest /\ regret'[r].tag = "Ok") =>
                /\ store' = apply(store, ResetRequest)
                /\ regret'[r] = returned(store, ResetRequest)]_vars

\* C18 witness: a restore_mocks command has returned and the store is empty.
RestoreActed ==
    \E r \in RegTasks :
        /\ Returned(r) /\ req[r] = RestoreRequest /\ regret[r] = RegOk(NoMock)
        /\ lastMutation = RestoreRequest /\ store = MockStore_new

NoArgsNoWrapping ==
    ( /\ prepared # NotPrepared
      /\ (~wire.has_args \/ wire.args = <<>>) ) => prepared = <<wire.script>>

\* C20 witness: a payload that leaves args out was deserialized and prepared,
\* and the effective script is its script.
PreparedWithoutArgs ==
    /\ ~wire.has_args
    /\ request = [script |-> wire.script, args |-> <<>>]
    /\ prepared = <<wire.script>>

\* C21: when args is not empty the effective script is the function wrapper
\* whose __wdio_args is bound to a list equal to args, element by element and
\* in order, and whose return statement evaluates the request's script in
\* that scope, so a script reading __wdio_args[0] gives the first argument.
ArgsBoundInOrder ==
    (prepared # NotPrepared /\ request.args # <<>>) =>
        /\ prepared[1] = "(function() { const __wdio_args = "
        /\ prepared[Len(prepared)] = "); })()"
        /\ return_at(prepared) = Len(prepared) - 2
        /\ wdio_args(prepared) = request.args
        /\ returned_expression(prepared) = request.script
        /\ script_value(returned_expression(prepared), wdio_args(prepared))
               = script_value(request.script, request.args)

\* C21 witness: args [1, "x"] was prepared, and the script reading
\* __wdio_args[0] in the wrapper's scope gives 1.
PreparedOneAndX ==
    /\ request.args = <<JNum("1"), JStr("x")>>
    /\ request.script = "__wdio_args[0]"
    /\ prepared # NotPrepared
    /\ wdio_args(prepared) = <<JNum("1"), JStr("x")>>
    /\ script_value(returned_expression(prepared), wdio_args(prepared)) = JNum("1")

\* C22: a call whose script injection was rejected is never in the wait, and
\* when it has returned its result is the ExecuteError carrying the rejection
\* text, not the timeout.
EvalRejectionReturnsAtOnce ==
    \A c \in Calls :
        (script[c] = NotDispatched) =>
            /\ pc[c] \in {"queued", "listening", "done"}
            /\ (pc[c] = "done") =>
                   /\ ret[c] = EvalRejected
                   /\ ret[c].tag = "ExecuteError"
                   /\ ret[c] # TimeoutError
                   /\ unlistened[c] = 0

\* C22 witness: a call has returned the rejection while another call is in
\* its wait.
RejectedWhileOtherWaits ==
    \E c, d \in Calls :
        /\ pc[c] = "done" /\ script[c] = NotDispatched /\ ret[c] = EvalRejected
        /\ pc[d] = "waiting"

\* The completion followed is the envelope's, of a script that settled.
FromEnvelope == completion.outcome.kind \in {"resolved", "threw"}
\* The listener has run on the event of the completion followed.
Heard == completion.stage = "heard" /\ completion.event.valid
\* What the result field r alone makes of a completion, its decode failure
\* carrying the error of kind k.
Decoded(r, k) ==
    IF r.t = "str"
    THEN IF from_str(r.s) # ParseFail THEN Ok(from_str(r.s))
         ELSE [tag |-> k, val |-> JStr("Failed to parse result JSON")]
    ELSE Ok(r)

\* C23: a result that is a string is decoded once more and the decoded value
\* is returned; if that decode fails the call fails with a
\* SerializationError; a result that is not a string is returned as it is.
DecodeFailureIsSerializationError ==
    (Heard /\ completion.event.payload.result # Absent) =>
        completion.sent = Decoded(completion.event.payload.result, "SerializationError")

\* C26: when the script has settled and an emit handle is there, the
\* envelope emits one event carrying the result field alone if the script
\* resolved and the error field alone if it threw, and the listener sends
\* the call an outcome.
EnvelopeDeliversOutcome ==
    ( /\ FromEnvelope
      /\ completion.has_global \/ completion.has_import
      /\ completion.stage \in {"emitted", "heard"} ) =>
        /\ completion.event.valid
        /\ (completion.outcome.kind = "resolved") =>
               /\ completion.event.payload.result # Absent
               /\ completion.event.payload.error = Absent
        /\ (completion.outcome.kind = "threw") =>
               /\ completion.event.payload.error # Absent
               /\ completion.event.payload.result = Absent
        /\ (completion.stage = "heard") => completion.sent # NoResult

\* C27: the envelope emits through the global handle when it is there and
\* through the imported one only when it is not, and the call is sent an
\* outcome exactly when one of the two is there, whether the script resolved
\* or threw.
EitherPathDelivers ==
    (FromEnvelope /\ completion.stage = "heard") =>
        /\ (completion.via = "import") => ~completion.has_global
        /\ (completion.via = "global") => completion.has_global
        /\ (completion.sent # NoResult)
               <=> (completion.has_global \/ completion.has_import)

\* C30: a payload with both fields is a success decided by the result field
\* alone; without a result, an error that is not a string gives the
\* ExecuteError "Unknown error" and an error that is a string gives the
\* ExecuteError carrying it.
ResultFieldWins ==
    Heard =>
        LET result == completion.event.payload.result
            error == completion.event.payload.error
        IN /\ (result # Absent) =>
                  completion.sent = Decoded(result, "ExecuteError")
           /\ (result = Absent /\ error # Absent) =>
                  completion.sent =
                      ExecuteError(IF error.t = "str" THEN error.s ELSE "Unknown error")

\* C30 witness: the listener has run on {result: "2", error: "boom"} and
\* sent Ok(2).
BothFieldsGaveResult ==
    /\ Heard
    /\ completion.event.payload = Payload(JStr("2"), JStr("boom"))
    /\ completion.sent = Ok(JNum("2"))

\* The event does not parse, or has neither a result nor an error.
Malformed(ev) ==
    ~ev.valid \/ (ev.payload.result = Absent /\ ev.payload.error = Absent)
\* The event ev is emitted in this step.
Emitted(ev) == events' = Append(events, ev)

\* C24: an event that does not parse or has neither field changes nothing of
\* the call: its channel, its result, its listener and where it stands are
\* as before.  A call that has seen only such events is still in its wait
\* with an empty channel, where the timeout can end it, or has returned the
\* timeout; and a well-formed event that follows reaches the channel.
MalformedEventIgnored ==
    /\ [][\A ev \in RawEvents :
            (Emitted(ev) /\ Malformed(ev)) =>
                UNCHANGED <<pc, chan, ret, listeners, unlistened, script>>]_vars
    /\ []((\A k \in 1..Len(events) : Malformed(events[k])) =>
              /\ chan[1] = <<>>
              /\ (pc[1] = "waiting") => (1 \in listeners /\ ENABLED Timeout(1))
              /\ (pc[1] \in {"woken", "done"} /\ script[1] # NotDispatched)
                     => ret[1] = TimeoutError)
    /\ [][\A ev \in RawEvents :
            (Emitted(ev) /\ ~Malformed(ev) /\ pc[1] = "waiting") =>
                chan'[1] = Append(chan[1], [src |-> 1, res |-> listener(ev.payload)])]_vars

\* C24 witness: an event that is not JSON, then the completion {result:
\* "2"}, and the call returned Ok(2).
ResolvedAfterGarbage ==
    /\ events = <<NotJson, Json(Payload(JStr("2"), Absent))>>
    /\ pc[1] = "done"
    /\ ret[1] = Ok(JNum("2"))

\* C25: the listener is in the table from before the dispatch until the
\* call is past its wait, so an event emitted at any moment from the
\* dispatch on, before the call has taken a message, is in the channel when
\* recv_timeout looks.
ListenerBeforeDispatch ==
    /\ []( /\ (pc[1] = "listening") => (1 \in listeners /\ script[1] = NotDispatched)
           /\ (script[1] # NotDispatched /\ pc[1] \in {"waiting", "woken"})
                  => 1 \in listeners )
    /\ [][\A ev \in RawEvents :
            (Emitted(ev) /\ ~Malformed(ev) /\ pc[1] \in {"listening", "waiting"}) =>
                chan'[1] = Append(chan[1], [src |-> 1, res |-> on_event(ev)])]_vars
    /\ [](pc[1] = "waiting" /\ chan[1] # <<>> => ENABLED Recv(1) /\ ~ENABLED Timeout(1))

\* C25 witness: the completion was emitted right after the dispatch and is
\* in the channel of the call, which is still to look at it.
CompletionBuffered ==
    /\ pc[1] = "waiting"
    /\ events = <<Json(Payload(JStr("2"), Absent))>>
    /\ chan[1] = <<[src |-> 1, res |-> Ok(JNum("2"))]>>

\* C28: the original-handler storage of the managed store is empty in every
\* state; had the store of the state any original handlers, set_mock,
\* get_mock and clear_mocks would leave them as they are, and reset_mocks and
\* restore_mocks would empty them with the overrides.
OriginalHandlersEmpty ==
    /\ store.original_handlers = {}
    /\ \A h \in SUBSET Commands :
         LET st == [store EXCEPT !.original_handlers = h]
         IN
           /\ MockStore_clear_mocks(st).original_handlers = st.original_handlers
           /\ MockStore_reset_mocks(st) = MockStore_new
           /\ \A rq \in Requests :
                  apply(st, rq).original_handlers =
                      IF rq.op \in {"reset_mocks", "restore_mocks"} THEN {}
                      ELSE st.original_handlers

\* C28 witness: a set_mock has stored its override and the original-handler
\* storage is empty.
StoredWithoutOriginal ==
    \E r \in RegTasks :
        /\ Returned(r) /\ req[r].op = "set_mock" /\ regret[r].tag = "Ok"
        /\ store.mocks[req[r].command] = req[r].config
        /\ store.original_handlers = {}

\* C29: a set_mock(c, cfg) that succeeds leaves, for every other name d,
\* what get_mock(d) returns as it was, leaves the original handlers as they
\* were, and makes cfg the one override of c; the map has one entry, or
\* none, per name.
SetMockTouchesOneEntry ==
    /\ [][\A r \in RegTasks :
            (Returns(r) /\ req'[r].op = "set_mock" /\ regret'[r].tag = "Ok") =>
                /\ \A d \in Commands \ {req'[r].command} :
                       MockStore_get_mock(store', d) = MockStore_get_mock(store, d)
                /\ MockStore_get_mock(store', req'[r].command) = req'[r].config
                /\ store'.original_handlers = store.original_handlers]_vars
    /\ [](DOMAIN store.mocks = Commands)

\* C29 witness: a set_mock was the last mutation, its override is stored and
\* the override of another name is still there.
OtherOverrideKept ==
    \E r \in RegTasks :
        /\ Returned(r) /\ req[r].op = "set_mock" /\ lastMutation = req[r]
        /\ store.mocks[req[r].command] = req[r].config
        /\ \E d \in Commands \ {req[r].command} : store.mocks[d] # NoMock

====
